---- MODULE Spec2Model ----
(***************************************************************************)
(* LocalShare (src/app.py): the in-memory session registry SESSIONS, the   *)
(* files of each session on disk under SESSIONS_DIR, the request handlers  *)
(* (new session, upload, list, download) run by concurrent worker threads, *)
(* and the background thread cleanup_expired_sessions.                     *)
(*                                                                         *)
(* Every `with SESSIONS_LOCK:` block is one atomic step; every file-system *)
(* call made outside the lock (exists, stat, save, open, unlink, the two   *)
(* phases of rmtree) is a step of its own, so that the other threads can   *)
(* interleave exactly where the code lets them.                            *)
(*                                                                         *)
(* A session dict is a record [id, ref, last_activity, files]; ref is its  *)
(* identity (the n-th dict ensure_session created).  A dict that has been  *)
(* popped from the registry is never written again (every writer looks the *)
(* id up afresh under the lock), and a files list that _cleanup replaced   *)
(* is never written again either, so a thread that still holds such an     *)
(* object holds a frozen copy of it.  For a listing, th[t].live says that  *)
(* the dict get_session returned is still the registered one (until the    *)
(* loop starts), th[t].iter that the list its loop iterates is still the   *)
(* registered session's list, and th[t].lst is the frozen list otherwise.  *)
(***************************************************************************)
EXTENDS Integers, Sequences, FiniteSets, TLC

\* ---------------------------------------------------------------- bounds
MaxTime == 2          \* the clock runs 0..MaxTime
MaxFiles == 1         \* uuid4 values ever drawn by api_upload

\* SESSION_TTL_SECONDS (app.py:30), in clock units of the model
SESSION_TTL_SECONDS == 1

Threads == {"t1", "t2"}        \* request-handling worker threads
SessionIds == {"A", "B"}       \* the codes generate_session_id draws and clients send
OneThread == {"t1"}
OneId == {"A"}
FileIds == 1..MaxFiles         \* file ids (uuid4().hex), in order of creation
NoSid == "none"
NoRef == 0                     \* no session dict (Python None)
None == [id |-> NoSid, ref |-> NoRef, last_activity |-> 0, files |-> <<>>]

VARIABLES
    SESSIONS,   \* the registry dict, in insertion order: Seq of session dicts
    nobj,       \* number of session dicts created so far
    dirs,       \* the session directories that exist under SESSIONS_DIR
    disk,       \* the files that exist on disk: <<session id, file id>>
    now,        \* time.time()
    nextFile,   \* number of uuid4 values drawn so far
    th,         \* per worker thread: position in its handler and the handler's locals
    sw,         \* the cleaner thread: position, to_delete, delete_session's sess
    consumed    \* history: file ids whose delivery cleanup has finished

vars == <<SESSIONS, nobj, dirs, disk, now, nextFile, th, sw, consumed>>

\* ------------------------------------------------------- dict operations
\* session_id in SESSIONS
Has(S, sid) == \E k \in 1..Len(S) : S[k].id = sid

\* position of the key
Pos(S, sid) == CHOOSE k \in 1..Len(S) : S[k].id = sid

\* SESSIONS.get(session_id)
Get(S, sid) == IF Has(S, sid) THEN S[Pos(S, sid)] ELSE None

\* the dict without the key
Without(S, sid) == SelectSeq(S, LAMBDA e : e.id # sid)

\* the keys, in iteration order
Keys(S) == [k \in 1..Len(S) |-> S[k].id]

InSeq(x, s) == \E k \in 1..Len(s) : s[k] = x

\* [x for x in files if x["id"] != file_id]
FilterOut(files, fid) == SelectSeq(files, LAMBDA x : x # fid)

\* ------------------------------------------------------------------ paths
\* A path is the sequence of its segments.  A session id and a saved name
\* are one segment each: the route converter <session_id> takes any text
\* without "/" (so "." and ".." too), and a saved name is a uuid4 hex with
\* the suffixes of a secure_filename.
BASE_DIR == <<"app">>
SESSIONS_DIR == BASE_DIR \o <<"tmp", "sessions">>

\* Path.resolve(): "." segments dropped, ".." segments take the parent
\* (no symbolic links under BASE_DIR)
RECURSIVE resolve(_)
resolve(path) ==
    IF path = <<>> THEN <<>>
    ELSE LET parent == resolve(SubSeq(path, 1, Len(path) - 1))
             x == path[Len(path)] IN
         IF x = "." THEN parent
         ELSE IF x = ".." THEN SubSeq(parent, 1, Len(parent) - 1)
         ELSE Append(parent, x)

\* str(final_path).startswith(str(base.resolve())).  On a base followed by
\* one segment the prefix of the strings and the prefix of the segment
\* sequences are the same test.
startswith(path, base) ==
    Len(base) <= Len(path) /\ SubSeq(path, 1, Len(base)) = base

\* safe_join(base, name): the resolved path, and whether the test passes
\* (abort(400) when it does not)
safe_join(base, name) ==
    LET final_path == resolve(Append(base, name)) IN
    [path |-> final_path, ok |-> startswith(final_path, resolve(base))]

\* ensure_session: sess_dir = SESSIONS_DIR / session_id, kept unresolved in
\* sess["dir"]
sess_dir(sid) == Append(SESSIONS_DIR, sid)

\* api_upload: saved_name = f"{file_id}{ext}"
saved_name(fid) == ToString(fid)

\* ------------------------------------------------------------- functions
\* ensure_session without its lookup: a new dict is inserted on every call
ensure_session_always(S, D, n, sid, clock) ==
    [S |-> Append(S, [id |-> sid, ref |-> n + 1, last_activity |-> clock,
                      files |-> <<>>]),
     D |-> D \cup {sid},
     n |-> n + 1,
     ref |-> n + 1]

\* ensure_session: the session dict of session_id, created (with its
\* directory) when the registry has none.  One locked block.
ensure_session(S, D, n, sid, clock) ==
    IF Has(S, sid)
    THEN [S |-> S, D |-> D, n |-> n, ref |-> Get(S, sid).ref]
    ELSE [S |-> Append(S, [id |-> sid, ref |-> n + 1, last_activity |-> clock,
                           files |-> <<>>]),
          D |-> D \cup {sid},
          n |-> n + 1,
          ref |-> n + 1]

\* get_session: the session dict, or None where the code aborts with 404
get_session(S, sid) == Get(S, sid)

\* touch_session without its membership test: SESSIONS[session_id][...] = now
\* raises KeyError on an id that is gone
touch_session_unchecked(S, sid, clock) ==
    IF Has(S, sid)
    THEN [S |-> [S EXCEPT ![Pos(S, sid)].last_activity = clock], err |-> FALSE]
    ELSE [S |-> S, err |-> TRUE]

\* touch_session: last_activity := now when the id is registered, else nothing
touch_session(S, sid, clock) ==
    IF Has(S, sid)
    THEN [S |-> [S EXCEPT ![Pos(S, sid)].last_activity = clock], err |-> FALSE]
    ELSE [S |-> S, err |-> FALSE]

\* delete_session with SESSIONS.pop(session_id), no default: KeyError on an
\* id that is gone
delete_session_pop_strict(S, sid) ==
    [S |-> Without(S, sid), sess |-> Get(S, sid), err |-> ~Has(S, sid)]

\* delete_session, the locked block: SESSIONS.pop(session_id, None)
delete_session_pop(S, sid) ==
    [S |-> Without(S, sid), sess |-> Get(S, sid), err |-> FALSE]

\* shutil.rmtree(dir, ignore_errors=True), first phase: unlink every entry
\* the directory scan finds
rmtree_unlink(K, sid) == {f \in K : f[1] # sid}

\* shutil.rmtree, second phase: rmdir, which fails (and is ignored) when a
\* file was written into the directory after the scan
rmtree_rmdir(D, K, sid) ==
    IF \E f \in K : f[1] = sid THEN D ELSE D \ {sid}

\* the scan with its operands swapped: last - now > TTL
Expired_swapped(S, clock) ==
    Keys(SelectSeq(S, LAMBDA e : e.last_activity - clock > SESSION_TTL_SECONDS))

\* cleanup_expired_sessions, the locked scan: ids with now - last > TTL, in
\* the registry's iteration order
Expired(S, clock) ==
    Keys(SelectSeq(S, LAMBDA e : clock - e.last_activity > SESSION_TTL_SECONDS))

\* the locked block of api_upload with an assignment in place of extend:
\* sess["files"] = saved
register_saved_assign(S, sid, saved, clock) ==
    IF Has(S, sid)
    THEN [S |-> [S EXCEPT ![Pos(S, sid)].files = saved,
                          ![Pos(S, sid)].last_activity = clock],
          err |-> FALSE]
    ELSE [S |-> S, err |-> TRUE]

\* api_upload, the locked block: SESSIONS[session_id] (KeyError when the id
\* is gone), files.extend(saved) in place, last_activity := now
register_saved(S, sid, saved, clock) ==
    IF Has(S, sid)
    THEN [S |-> [S EXCEPT ![Pos(S, sid)].files = @ \o saved,
                          ![Pos(S, sid)].last_activity = clock],
          err |-> FALSE]
    ELSE [S |-> S, err |-> TRUE]

\* download_file._cleanup, before the lock: unlink the file if it exists
cleanup_unlink(K, sid, fid) == K \ {<<sid, fid>>}

\* _cleanup that only touches the session and keeps the entry
cleanup_remove_keep(S, sid, fid, clock) ==
    IF Has(S, sid)
    THEN [S EXCEPT ![Pos(S, sid)].last_activity = clock]
    ELSE S

\* _cleanup that empties the files list of the session
cleanup_remove_clear(S, sid, fid, clock) ==
    IF Has(S, sid)
    THEN [S EXCEPT ![Pos(S, sid)].files = <<>>,
                   ![Pos(S, sid)].last_activity = clock]
    ELSE S

\* download_file._cleanup, the locked block: when the id is registered, a
\* new files list without the entry, and last_activity := now
cleanup_remove(S, sid, fid, clock) ==
    IF Has(S, sid)
    THEN [S EXCEPT ![Pos(S, sid)].files = FilterOut(@, fid),
                   ![Pos(S, sid)].last_activity = clock]
    ELSE S

\* download_file: the search of sess["files"] finds file_id
find_file(sess, fid) == InSeq(fid, sess.files)

\* delete_session as a whole, run with no other thread in between, on the
\* registry S, the directories D and the files K
delete_session(st, sid) ==
    LET p == delete_session_pop(st.S, sid) IN
    IF p.err THEN [st EXCEPT !.err = TRUE]
    ELSE IF p.sess # None
    THEN LET K2 == rmtree_unlink(st.K, p.sess.id) IN
         [S |-> p.S, D |-> rmtree_rmdir(st.D, K2, p.sess.id), K |-> K2, err |-> FALSE]
    ELSE [S |-> p.S, D |-> st.D, K |-> st.K, err |-> FALSE]

\* download_file._cleanup as a whole, run with no other thread in between
cleanup(st, sid, fid, clock) ==
    [S |-> cleanup_remove(st.S, sid, fid, clock), D |-> st.D,
     K |-> cleanup_unlink(st.K, sid, fid), err |-> FALSE]

\* f_path.exists(), f_path.stat(), open(): the file is on disk
OnDisk(K, sid, fid) == <<sid, fid>> \in K

\* api_list_files: the list object `for f in sess["files"]` iterates
IterList(T, S, t) == IF T[t].iter THEN Get(S, T[t].sid).files ELSE T[t].lst

\* sess2["files"] = [...] gives the registered session sid a new list: the
\* listings that iterate its list keep the old list object
DetachList(T, S, sid) ==
    [u \in DOMAIN T |->
        IF T[u].iter /\ T[u].sid = sid
        THEN [T[u] EXCEPT !.iter = FALSE, !.lst = Get(S, sid).files]
        ELSE T[u]]

\* SESSIONS.pop(sid): the listings that hold the popped dict (before their
\* loop, or iterating its list) keep it as it is now
DetachDict(T, S, sid) ==
    [u \in DOMAIN T |->
        IF (T[u].live \/ T[u].iter) /\ T[u].sid = sid
        THEN [T[u] EXCEPT !.live = FALSE, !.iter = FALSE, !.lst = Get(S, sid).files]
        ELSE T[u]]

\* ------------------------------------------------------------------ init
Idle == [pc |-> "idle", op |-> "none", sid |-> NoSid, sess |-> NoRef, fid |-> 0,
         i |-> 0, live |-> FALSE, iter |-> FALSE, lst |-> <<>>, view |-> <<>>, saved |-> <<>>,
         hit |-> TRUE, res |-> 0]

Init ==
    /\ SESSIONS = <<>>
    /\ nobj = 0
    /\ dirs = {}
    /\ disk = {}
    /\ now = 0
    /\ nextFile = 0
    /\ th = [t \in Threads |-> Idle]
    /\ sw = [pc |-> "scan", to_delete |-> <<>>, sess |-> None]
    /\ consumed = {}

\* a handler that has returned or aborted: the HTTP status in res (its
\* other locals are dead, except what the response carries)
Finish(T, t, status) ==
    [T EXCEPT ![t] = [Idle EXCEPT !.pc = "done", !.res = status, !.op = T[t].op,
                                  !.sid = T[t].sid,
                                  !.fid = T[t].fid, !.sess = T[t].sess,
                                  !.view = T[t].view]]

\* the worker takes the next request
Return(t) ==
    /\ th[t].pc = "done"
    /\ th' = [th EXCEPT ![t] = Idle]
    /\ UNCHANGED <<SESSIONS, nobj, dirs, disk, now, nextFile, sw, consumed>>

\* time passes
Tick ==
    /\ now < MaxTime
    /\ now' = now + 1
    /\ UNCHANGED <<SESSIONS, nobj, dirs, disk, nextFile, th, sw, consumed>>

\* ----------------------------------------------------- /api/session/new
\* generate_session_id: draw codes until one is not in SESSIONS (checked
\* under the lock, which is released before the code is returned)
NewGenerate(t, code) ==
    /\ th[t].pc = "idle"
    /\ ~Has(SESSIONS, code)
    /\ th' = [th EXCEPT ![t].pc = "new_ensure", ![t].op = "new", ![t].sid = code]
    /\ UNCHANGED <<SESSIONS, nobj, dirs, disk, now, nextFile, sw, consumed>>

\* api_new_session: ensure_session(session_id), then the response
NewEnsure(t) ==
    /\ th[t].pc = "new_ensure"
    /\ LET r == ensure_session(SESSIONS, dirs, nobj, th[t].sid, now) IN
          /\ SESSIONS' = r.S
          /\ dirs' = r.D
          /\ nobj' = r.n
          /\ th' = Finish([th EXCEPT ![t].sess = r.ref], t, 200)
    /\ UNCHANGED <<disk, now, nextFile, sw, consumed>>

\* ------------------------------------------------- /api/upload/<session_id>
\* ensure_session(session_id), then the two checks of request.files
UploadEnsure(t, sid) ==
    /\ th[t].pc = "idle"
    /\ LET r == ensure_session(SESSIONS, dirs, nobj, sid, now) IN
          /\ SESSIONS' = r.S
          /\ dirs' = r.D
          /\ nobj' = r.n
          /\ \E hasFiles \in BOOLEAN :
                th' = IF hasFiles
                      THEN [th EXCEPT ![t].pc = "up_loop", ![t].op = "upload",
                                      ![t].sid = sid, ![t].sess = r.ref]
                      ELSE Finish([th EXCEPT ![t].op = "upload", ![t].sid = sid,
                                             ![t].sess = r.ref], t, 400)
    /\ UNCHANGED <<disk, now, nextFile, sw, consumed>>

\* for f in files: a part with no filename is skipped (`continue`): nothing
\* but the loop's position changes, and the model keeps no count of the parts
UploadSkip(t) ==
    /\ th[t].pc = "up_loop"
    /\ UNCHANGED vars

\* for f in files: secure_filename leaves nothing: abort(400)
UploadReject(t) ==
    /\ th[t].pc = "up_loop"
    /\ th' = Finish(th, t, 400)
    /\ UNCHANGED <<SESSIONS, nobj, dirs, disk, now, nextFile, sw, consumed>>

\* for f in files: a good name; file_id = uuid4().hex; f.save(dest_path)
\* creates the file, or raises when the directory is gone.  F bounds the
\* number of uuid4 values drawn.
UploadSave(t, F) ==
    /\ th[t].pc = "up_loop"
    /\ nextFile < F
    /\ nextFile' = nextFile + 1
    /\ IF ~safe_join(sess_dir(th[t].sid), saved_name(nextFile + 1)).ok
       THEN /\ disk' = disk
            /\ th' = Finish(th, t, 400)
       ELSE IF th[t].sid \in dirs
       THEN /\ disk' = disk \cup {<<th[t].sid, nextFile + 1>>}
            /\ th' = [th EXCEPT ![t].pc = "up_stat",
                                ![t].fid = nextFile + 1]
       ELSE /\ disk' = disk
            /\ th' = Finish(th, t, 500)
    /\ UNCHANGED <<SESSIONS, nobj, dirs, now, sw, consumed>>

\* dest_path.stat().st_size, saved.append(...)
UploadStat(t) ==
    /\ th[t].pc = "up_stat"
    /\ th' = IF OnDisk(disk, th[t].sid, th[t].fid)
             THEN [th EXCEPT ![t].pc = "up_loop", ![t].saved = Append(@, th[t].fid),
                             ![t].fid = 0]
             ELSE Finish(th, t, 500)
    /\ UNCHANGED <<SESSIONS, nobj, dirs, disk, now, nextFile, sw, consumed>>

\* the loop is over: the locked block that registers the saved entries
\* (none, when every part was skipped), then the response
UploadRegister(t) ==
    /\ th[t].pc = "up_loop"
    /\ LET r == register_saved(SESSIONS, th[t].sid, th[t].saved, now) IN
          /\ SESSIONS' = r.S
          /\ th' = Finish(th, t, IF r.err THEN 500 ELSE 200)
    /\ UNCHANGED <<nobj, dirs, disk, now, nextFile, sw, consumed>>

\* -------------------------------------------------- /api/files/<session_id>
\* api_list_files with ensure_session in the place of get_session
ListGet_ensuring(t, sid) ==
    /\ th[t].pc = "idle"
    /\ LET r == ensure_session(SESSIONS, dirs, nobj, sid, now) IN
          /\ SESSIONS' = r.S
          /\ dirs' = r.D
          /\ nobj' = r.n
          /\ th' = [th EXCEPT ![t].pc = "ls_touch", ![t].op = "list", ![t].sid = sid,
                               ![t].sess = r.ref, ![t].live = TRUE]
    /\ UNCHANGED <<disk, now, nextFile, sw, consumed>>

\* sess = get_session(session_id)
ListGet(t, sid) ==
    /\ th[t].pc = "idle"
    /\ LET s == get_session(SESSIONS, sid) IN
          th' = IF s = None
                THEN Finish([th EXCEPT ![t].op = "list", ![t].sid = sid], t, 404)
                ELSE [th EXCEPT ![t].pc = "ls_touch", ![t].op = "list", ![t].sid = sid,
                                ![t].sess = s.ref, ![t].live = TRUE]
    /\ UNCHANGED <<SESSIONS, nobj, dirs, disk, now, nextFile, sw, consumed>>

\* touch_session(session_id); files_view = []; the loop starts on the list
\* sess["files"] is now
ListTouch(t) ==
    /\ th[t].pc = "ls_touch"
    /\ LET r == touch_session(SESSIONS, th[t].sid, now) IN
          /\ SESSIONS' = r.S
          /\ th' = IF r.err THEN Finish(th, t, 500)
                   ELSE [th EXCEPT ![t].pc = "ls_exists", ![t].i = 1,
                                   ![t].iter = th[t].live, ![t].live = FALSE,
                                   ![t].hit = Has(SESSIONS, th[t].sid)]
    /\ UNCHANGED <<nobj, dirs, disk, now, nextFile, sw, consumed>>

\* the next f of the loop, or its end; f_path.exists()
ListExists(t) ==
    /\ th[t].pc = "ls_exists"
    /\ LET L == IterList(th, SESSIONS, t) IN
          th' = IF th[t].i > Len(L) THEN Finish(th, t, 200)
                ELSE IF OnDisk(disk, th[t].sid, L[th[t].i])
                     THEN [th EXCEPT ![t].pc = "ls_stat"]
                     ELSE [th EXCEPT ![t].i = @ + 1]
    /\ UNCHANGED <<SESSIONS, nobj, dirs, disk, now, nextFile, sw, consumed>>

\* files_view.append({..., "size": f.get("size", f_path.stat().st_size)}):
\* the default argument is evaluated first, so stat() always runs
ListStat(t) ==
    /\ th[t].pc = "ls_stat"
    /\ LET L == IterList(th, SESSIONS, t) IN
          th' = IF OnDisk(disk, th[t].sid, L[th[t].i])
                THEN [th EXCEPT ![t].pc = "ls_exists", ![t].i = @ + 1,
                                ![t].view = Append(@, L[th[t].i])]
                ELSE Finish(th, t, 500)
    /\ UNCHANGED <<SESSIONS, nobj, dirs, disk, now, nextFile, sw, consumed>>

\* ------------------------------------------ /download/<session_id>/<file_id>
\* sess = get_session(session_id); the search of sess["files"] for file_id
DownloadLookup(t, sid, fid) ==
    /\ th[t].pc = "idle"
    /\ LET s == get_session(SESSIONS, sid) IN
          th' = IF s # None /\ find_file(s, fid)
                THEN [th EXCEPT ![t].pc = "dl_exists", ![t].op = "download",
                                ![t].sid = sid, ![t].fid = fid, ![t].sess = s.ref]
                ELSE Finish([th EXCEPT ![t].op = "download", ![t].sid = sid,
                                       ![t].fid = fid], t, 404)
    /\ UNCHANGED <<SESSIONS, nobj, dirs, disk, now, nextFile, sw, consumed>>

\* file_path = safe_join(sess_dir, saved_name), which may abort(400);
\* file_path.exists(), else abort(404)
DownloadExists(t) ==
    /\ th[t].pc = "dl_exists"
    /\ th' = IF ~safe_join(sess_dir(th[t].sid), saved_name(th[t].fid)).ok
             THEN Finish(th, t, 400)
             ELSE IF OnDisk(disk, th[t].sid, th[t].fid)
             THEN [th EXCEPT ![t].pc = "dl_send"]
             ELSE Finish(th, t, 404)
    /\ UNCHANGED <<SESSIONS, nobj, dirs, disk, now, nextFile, sw, consumed>>

\* send_file(file_path): opens the file, or raises when it is gone
DownloadSend(t) ==
    /\ th[t].pc = "dl_send"
    /\ th' = IF OnDisk(disk, th[t].sid, th[t].fid)
             THEN [th EXCEPT ![t].pc = "dl_touch"]
             ELSE Finish(th, t, 500)
    /\ UNCHANGED <<SESSIONS, nobj, dirs, disk, now, nextFile, sw, consumed>>

\* resp.call_on_close(_cleanup); touch_session(session_id); return resp
DownloadTouch(t) ==
    /\ th[t].pc = "dl_touch"
    /\ LET r == touch_session(SESSIONS, th[t].sid, now) IN
          /\ SESSIONS' = r.S
          /\ th' = IF r.err THEN Finish(th, t, 500)
                   ELSE [th EXCEPT ![t].pc = "streaming",
                                   ![t].hit = Has(SESSIONS, th[t].sid)]
    /\ UNCHANGED <<nobj, dirs, disk, now, nextFile, sw, consumed>>

\* the response is closed (sent, failed or the client went away): _cleanup
\* starts and unlinks the file
DownloadClose(t) ==
    /\ th[t].pc = "streaming"
    /\ disk' = cleanup_unlink(disk, th[t].sid, th[t].fid)
    /\ th' = [th EXCEPT ![t].pc = "dl_remove"]
    /\ UNCHANGED <<SESSIONS, nobj, dirs, now, nextFile, sw, consumed>>

\* _cleanup, its locked block
DownloadRemove(t) ==
    /\ th[t].pc = "dl_remove"
    /\ SESSIONS' = cleanup_remove(SESSIONS, th[t].sid, th[t].fid, now)
    /\ th' = Finish(DetachList(th, SESSIONS, th[t].sid), t, 200)
    /\ consumed' = consumed \cup {th[t].fid}
    /\ UNCHANGED <<nobj, dirs, disk, now, nextFile, sw>>

\* ------------------------------------------------ cleanup_expired_sessions
\* now = time.time(); the locked scan that fills to_delete.  With nothing
\* to delete the cycle is over: time.sleep(CLEANUP_INTERVAL_SECONDS), and
\* the next cycle of `while True` scans again.
SweepScan ==
    /\ sw.pc = "scan"
    /\ LET found == Expired(SESSIONS, now) IN
          sw' = [sw EXCEPT !.pc = IF found = <<>> THEN "scan" ELSE "delete",
                           !.to_delete = found]
    /\ UNCHANGED <<SESSIONS, nobj, dirs, disk, now, nextFile, th, consumed>>

\* for sid in to_delete: delete_session(sid), its locked pop (an exception
\* it raised would end the thread)
SweepPop ==
    /\ sw.pc = "delete"
    /\ sw.to_delete # <<>>
    /\ LET sid == Head(sw.to_delete)
           r == delete_session_pop(SESSIONS, sid) IN
          /\ SESSIONS' = r.S
          /\ th' = DetachDict(th, SESSIONS, sid)
          /\ sw' = IF r.err THEN [sw EXCEPT !.pc = "dead"]
                   ELSE IF r.sess # None
                   THEN [sw EXCEPT !.pc = "rmtree", !.to_delete = Tail(@), !.sess = r.sess]
                   ELSE [sw EXCEPT !.to_delete = Tail(@),
                                   !.pc = IF Tail(sw.to_delete) = <<>> THEN "scan"
                                          ELSE "delete"]
    /\ UNCHANGED <<nobj, dirs, disk, now, nextFile, consumed>>

\* delete_session: rmtree of the popped session's directory, its unlinks
SweepRmtreeUnlink ==
    /\ sw.pc = "rmtree"
    /\ disk' = rmtree_unlink(disk, sw.sess.id)
    /\ sw' = [sw EXCEPT !.pc = "rmdir"]
    /\ UNCHANGED <<SESSIONS, nobj, dirs, now, nextFile, th, consumed>>

\* delete_session: rmtree of the popped session's directory, its rmdir.
\* After the last id of to_delete the cycle is over: sleep, then scan.
SweepRmtreeRmdir ==
    /\ sw.pc = "rmdir"
    /\ dirs' = rmtree_rmdir(dirs, disk, sw.sess.id)
    /\ sw' = [sw EXCEPT !.pc = IF sw.to_delete = <<>> THEN "scan" ELSE "delete",
                        !.sess = None]
    /\ UNCHANGED <<SESSIONS, nobj, disk, now, nextFile, th, consumed>>

Sweeper ==
    \/ SweepScan
    \/ SweepPop
    \/ SweepRmtreeUnlink
    \/ SweepRmtreeRmdir

\* the steps of the workers T serving requests for the session ids I, with
\* at most F files uploaded
NewSession(T, I) ==
    \/ \E t \in T, code \in I : NewGenerate(t, code)
    \/ \E t \in T : NewEnsure(t)

Upload(T, I, F) ==
    \/ \E t \in T, sid \in I : UploadEnsure(t, sid)
    \/ \E t \in T : UploadSkip(t)
    \/ \E t \in T : UploadReject(t)
    \/ \E t \in T : UploadSave(t, F)
    \/ \E t \in T : UploadStat(t)
    \/ \E t \in T : UploadRegister(t)

List(T, I) ==
    \/ \E t \in T, sid \in I : ListGet(t, sid)
    \/ \E t \in T : ListTouch(t)
    \/ \E t \in T : ListExists(t)
    \/ \E t \in T : ListStat(t)

Download(T, I, F) ==
    \/ \E t \in T, sid \in I, fid \in 1..F : DownloadLookup(t, sid, fid)
    \/ \E t \in T : DownloadExists(t)
    \/ \E t \in T : DownloadSend(t)
    \/ \E t \in T : DownloadTouch(t)
    \/ \E t \in T : DownloadClose(t)
    \/ \E t \in T : DownloadRemove(t)

\* two workers and the cleaner on one session id
Next ==
    \/ Tick
    \/ Sweeper
    \/ NewSession(Threads, OneId)
    \/ Upload(Threads, OneId, MaxFiles)
    \/ List(Threads, OneId)
    \/ Download(Threads, OneId, MaxFiles)
    \/ \E t \in Threads : Return(t)

Spec == Init /\ [][Next]_vars

\* one worker that uploads and lists, and the cleaner, on two session ids;
\* the cleaner is a daemon thread the interpreter keeps scheduling
SweepNext ==
    \/ Tick
    \/ Sweeper
    \/ Upload(OneThread, SessionIds, MaxFiles)
    \/ List(OneThread, SessionIds)
    \/ \E t \in OneThread : Return(t)

SweepSpec == Init /\ [][SweepNext]_vars /\ WF_vars(Sweeper)

\* one worker that uploads and one that downloads, on two session ids that
\* stay live (no time passes) and receive two files more
OtherThread == Threads \ OneThread
MoreFileIds == 1..(MaxFiles + 2)

FilesNext ==
    \/ Upload(OneThread, SessionIds, MaxFiles + 2)
    \/ Download(OtherThread, SessionIds, MaxFiles + 2)
    \/ \E t \in Threads : Return(t)

FilesSpec == Init /\ [][FilesNext]_vars

\* the workers serving requests whose <session_id> is any single segment
PathIds == {"A", ".", ".."}

PathNext ==
    \/ Upload(Threads, PathIds, MaxFiles)
    \/ List(Threads, PathIds)
    \/ Download(Threads, PathIds, MaxFiles)
    \/ \E t \in Threads : Return(t)

PathSpec == Init /\ [][PathNext]_vars

\* ------------------------------------------------------------ properties
\* the response of a download whose stream is open and whose cleanup has
\* not started
Open(t) == th[t].op = "download" /\ th[t].pc \in {"dl_touch", "streaming"}

Registered(fid) == \E sid \in SessionIds : find_file(Get(SESSIONS, sid), fid)

Stored(fid) == \E sid \in SessionIds : OnDisk(disk, sid, fid)

IsExpired(sid) ==
    Has(SESSIONS, sid) /\ now - Get(SESSIONS, sid).last_activity > SESSION_TTL_SECONDS

\* C1: of the concurrent download_file calls for one file, at most one has
\* the stream open: no two workers hold an open stream of the same file.
C1_OneDelivery ==
    \A t, u \in Threads :
        (t # u /\ Open(t) /\ Open(u)) => <<th[t].sid, th[t].fid>> # <<th[u].sid, th[u].fid>>

\* C2: once the cleanup of a delivery has finished, the file is on disk in
\* no session directory and no registered session lists it, so that every
\* later download_file finds nothing (404) and no listing reports it; and a
\* delivery that served its file has run its cleanup.
C2_ConsumedGone ==
    /\ \A f \in consumed : ~Stored(f) /\ ~Registered(f)
    /\ \A t \in Threads :
          (th[t].op = "download" /\ th[t].pc = "done" /\ th[t].res = 200)
              => th[t].fid \in consumed

C2_Witness ==
    \E t \in Threads : th[t].op = "download" /\ th[t].pc = "done" /\ th[t].res = 200

\* C3: a step that removes a session from the registry finds it expired:
\* now - last_activity > TTL in the state it is removed from.
C3_SweptOnlyExpired ==
    [][\A sid \in SessionIds :
          (Has(SESSIONS, sid) /\ ~Has(SESSIONS', sid)) => IsExpired(sid)]_vars

\* C4: a registered session that is past its TTL is eventually removed from
\* the registry unless it is touched; the cleaner always comes back to its
\* scan (no deletion ends its loop, whether the id is gone or the rmdir
\* fails), and on the way its rmtree leaves no file of the session it
\* popped on the disk.
C4_ExpiredSwept ==
    /\ \A sid \in SessionIds : IsExpired(sid) ~> ~IsExpired(sid)
    /\ []<>(sw.pc = "scan")
    /\ [][(sw.pc = "rmtree" /\ sw'.pc # "rmtree")
            => /\ ~Has(SESSIONS, sw.sess.id) \/ Get(SESSIONS, sw.sess.id).ref # sw.sess.ref
               /\ \A f \in FileIds :
                     find_file(sw.sess, f) => ~OnDisk(disk', sw.sess.id, f)]_vars

C4_Witness ==
    /\ sw.pc = "rmdir"
    /\ sw.sess.files # <<>>
    /\ ~Has(SESSIONS, sw.sess.id)
    /\ sw.to_delete # <<>>

\* C5: no step removes from the registry the session of a delivery whose
\* stream is open.  The removals counted here are those of a session that
\* is idle past its TTL at that moment, the stream having been open that
\* long (a removal of a fresh session is C3's matter).
C5_NoSweepWhileOpen ==
    [][\A t \in Threads :
          (Open(t) /\ th[t].pc = "streaming" /\ IsExpired(th[t].sid))
              => Has(SESSIONS', th[t].sid)]_vars

\* C6: the code generate_session_id returned is still absent from the
\* registry when api_new_session goes on to ensure_session.
C6_CodeStillFree ==
    \A t \in Threads : th[t].pc = "new_ensure" => ~Has(SESSIONS, th[t].sid)

\* C7: a listing never ends in an error: it answers 200 with the files it
\* found on disk, or 404 for an unknown session.
C7_ListNeverFails ==
    \A t \in Threads :
        (th[t].op = "list" /\ th[t].pc = "done") => th[t].res \in {200, 404}

\* C8: the files a listing returns are Available: in the step in which the
\* listing answers, none of the files it returns has a delivery with its
\* stream open.
C8_ListOnlyAvailable ==
    [][\A t, u \in Threads : \A f \in FileIds :
          (th[t].op = "list" /\ th[t].pc # "done" /\ th'[t].pc = "done"
             /\ th'[t].res = 200 /\ InSeq(f, th'[t].view))
              => ~(Open(u) /\ th[u].sid = th[t].sid /\ th[u].fid = f)]_vars

\* C9: touch_session on an id that is no longer registered (it was when the
\* handler looked it up) leaves the registry, the directories and the
\* number of session dicts as they are, and the handler goes on normally.
C9_TouchAbsent ==
    [][\A t \in Threads :
          (th[t].pc \in {"ls_touch", "dl_touch"} /\ th'[t].pc # th[t].pc
             /\ ~Has(SESSIONS, th[t].sid))
              => /\ SESSIONS' = SESSIONS
                 /\ nobj' = nobj
                 /\ dirs' = dirs
                 /\ th'[t].pc \in {"ls_exists", "streaming"}]_vars

C9_Witness ==
    \E t \in Threads : th[t].pc \in {"ls_exists", "streaming"} /\ ~th[t].hit

\* what a client or the disk can show of a state: the registered ids, the
\* files of each, the directories and the files on disk
Obs(st) ==
    [ids |-> Keys(st.S), files |-> [k \in 1..Len(st.S) |-> st.S[k].files],
     D |-> st.D, K |-> st.K]

\* C10: in every reachable state, delete_session twice shows the same state
\* as delete_session once, and so does the delivery cleanup run twice (the
\* second time at a later clock value); neither raises, and on an id that
\* is not registered both leave the registry and the directories alone.
C10_Idempotent ==
    LET st == [S |-> SESSIONS, D |-> dirs, K |-> disk, err |-> FALSE] IN
    \A sid \in SessionIds :
        /\ LET d1 == delete_session(st, sid)
               d2 == delete_session(d1, sid) IN
              /\ ~d2.err
              /\ d2 = d1
              /\ ~Has(SESSIONS, sid) => d1 = st
        /\ \A fid \in FileIds :
              LET c1 == cleanup(st, sid, fid, now)
                  c2 == cleanup(c1, sid, fid, MaxTime) IN
                 /\ ~c2.err
                 /\ Obs(c2) = Obs(c1)
                 /\ ~Has(SESSIONS, sid) => (c1.S = st.S /\ c1.D = st.D)

\* the cleanup of one file has run twice: two deliveries of it have finished
C10_Witness ==
    \E t, u \in Threads :
        /\ t # u
        /\ th[t].op = "download" /\ th[t].pc = "done" /\ th[t].res = 200
        /\ th[u].op = "download" /\ th[u].pc = "done" /\ th[u].res = 200
        /\ th[t].fid = th[u].fid

\* the worker holds a session dict that ensure_session returned to it
Ensured(t) == th[t].op \in {"new", "upload"} /\ th[t].sess # NoRef

\* C11: the registry holds one session dict per id, and the callers of
\* ensure_session for one id hold the same dict: where two of them hold
\* different dicts, the older one has left the registry before the newer
\* one was created, and a dict that is registered is the one its callers
\* were given last.
C11_OneInstance ==
    /\ \A j, k \in 1..Len(SESSIONS) :
          (SESSIONS[j].id = SESSIONS[k].id \/ SESSIONS[j].ref = SESSIONS[k].ref) => j = k
    /\ \A t, u \in Threads :
          (Ensured(t) /\ Ensured(u) /\ th[t].sid = th[u].sid /\ th[t].sess < th[u].sess)
              => ~(Has(SESSIONS, th[t].sid) /\ Get(SESSIONS, th[t].sid).ref = th[t].sess)
    /\ \A t \in Threads :
          (Ensured(t) /\ Has(SESSIONS, th[t].sid))
              => th[t].sess <= Get(SESSIONS, th[t].sid).ref

\* two uploads in flight on one id hold the one registered dict
C11_Witness ==
    \E t, u \in Threads :
        /\ t # u
        /\ th[t].pc = "up_loop" /\ th[u].pc = "up_loop"
        /\ th[t].sid = th[u].sid
        /\ th[t].sess = th[u].sess
        /\ Has(SESSIONS, th[t].sid) /\ Get(SESSIONS, th[t].sid).ref = th[t].sess

\* C12: the locked block that registers the entries of an upload never
\* raises: on an id that is gone it ends as an ordinary negative result.
\* Stated on every upload whose loop may be over: the block run now does
\* not raise, and on an id that is gone it leaves the registry as it is.
C12_RegisterNoCrash ==
    \A t \in Threads :
        th[t].pc = "up_loop" =>
            LET r == register_saved(SESSIONS, th[t].sid, th[t].saved, now) IN
               /\ ~r.err
               /\ ~Has(SESSIONS, th[t].sid) => r.S = SESSIONS

\* C13: a download_file that found the entry and then finds its file
\* missing answers 404 and leaves the session without the entry.
C13_StaleEntryRemoved ==
    [][\A t \in Threads :
          (th[t].pc = "dl_exists" /\ th'[t].pc = "done" /\ th'[t].res = 404)
              => ~find_file(Get(SESSIONS', th[t].sid), th[t].fid)]_vars

\* C14: an entry enters a session's files list only in the step in which
\* the upload that wrote it answers 200, and its file is on disk in that
\* session's directory at that moment.
C14_RegisteredAfterWrite ==
    [][\A sid \in SessionIds : \A f \in FileIds :
          (~find_file(Get(SESSIONS, sid), f) /\ find_file(Get(SESSIONS', sid), f))
              => /\ OnDisk(disk, sid, f)
                 /\ \E t \in Threads :
                       /\ th[t].pc = "up_loop" /\ th[t].sid = sid /\ InSeq(f, th[t].saved)
                       /\ th'[t].pc = "done" /\ th'[t].res = 200]_vars

\* the session dict registered for sid is the same object before and after
\* the step
SameDict(sid) ==
    /\ Has(SESSIONS, sid) /\ Has(SESSIONS', sid)
    /\ Get(SESSIONS, sid).ref = Get(SESSIONS', sid).ref

\* C15: on a session that stays registered, every step leaves the files
\* list as it found it, except the registering block of an upload, which
\* leaves the list it found followed by the upload's entries, and the locked
\* block of a delivery cleanup, which leaves the list it found without the
\* delivered entry and in the same order: each mutation is applied to the
\* list the other mutations produced, so none is lost.
C15_NoLostUpdate ==
    [][\A sid \in SessionIds :
          SameDict(sid) =>
              LET old == Get(SESSIONS, sid).files
                  new == Get(SESSIONS', sid).files IN
                 /\ \A t \in Threads :
                       (th[t].pc = "up_loop" /\ th[t].sid = sid
                          /\ th'[t].pc = "done" /\ th'[t].res = 200)
                           => new = old \o th[t].saved
                 /\ \A t \in Threads :
                       (th[t].pc = "dl_remove" /\ th[t].sid = sid /\ th'[t].pc = "done")
                           => new = FilterOut(old, th[t].fid)
                 /\ new # old =>
                       \E t \in Threads :
                          /\ th[t].sid = sid /\ th'[t].pc = "done"
                          /\ th[t].pc \in {"up_loop", "dl_remove"}]_vars

\* an upload with an entry to register and a delivery cleanup about to
\* remove an entry stand before their locked blocks on the same session
C15_Witness ==
    \E t, u \in Threads :
        /\ th[t].pc = "up_loop" /\ th[t].saved # <<>>
        /\ th[u].pc = "dl_remove" /\ th[u].sid = th[t].sid
        /\ find_file(Get(SESSIONS, th[u].sid), th[u].fid)

\* C16: a listing or a download that starts on an id the registry does not
\* hold answers 404 in that step and leaves the registry, the number of
\* session dicts and the directories as they are; and an id enters the
\* registry only in a step of ensure_session (of api_new_session or
\* api_upload).
C16_GetReadOnly ==
    [][/\ \A t \in Threads :
            (th[t].pc = "idle" /\ th'[t].op \in {"list", "download"}
               /\ ~Has(SESSIONS, th'[t].sid))
                => /\ th'[t].pc = "done" /\ th'[t].res = 404
                   /\ SESSIONS' = SESSIONS /\ nobj' = nobj /\ dirs' = dirs
       /\ \A sid \in SessionIds :
            (~Has(SESSIONS, sid) /\ Has(SESSIONS', sid))
                => \E t \in Threads :
                      /\ th[t].pc \in {"idle", "new_ensure"}
                      /\ th'[t].op \in {"new", "upload"} /\ th'[t].sid = sid
                      /\ th'[t].pc # th[t].pc]_vars

\* a listing or a download has answered 404 for an id that is not registered
C16_Witness ==
    \E t \in Threads :
        /\ th[t].op \in {"list", "download"} /\ th[t].pc = "done" /\ th[t].res = 404
        /\ ~Has(SESSIONS, th[t].sid) /\ th[t].sid \notin dirs

\* C17: every file on disk that a handler wrote for a session, and that the
\* handlers read and unlink, has a resolved path inside SESSIONS_DIR.
C17_InsideRoot ==
    \A f \in disk :
        startswith(resolve(Append(sess_dir(f[1]), saved_name(f[2]))), SESSIONS_DIR)

\* C18: when the cleaner is not inside a delete_session, every registered
\* session has its directory, and every entry of its files list has its
\* file on disk, unless the cleanup of a delivery of that entry has unlinked
\* it and is about to remove the entry.
C18_DeleteSerialized ==
    sw.pc \in {"scan", "delete"} =>
        \A k \in 1..Len(SESSIONS) :
            LET sess == SESSIONS[k] IN
               /\ sess.id \in dirs
               /\ \A j \in 1..Len(sess.files) :
                     \/ OnDisk(disk, sess.id, sess.files[j])
                     \/ \E t \in Threads :
                           /\ th[t].pc = "dl_remove"
                           /\ th[t].sid = sess.id /\ th[t].fid = sess.files[j]

\* position of an entry in a files list
Index(files, x) == CHOOSE k \in 1..Len(files) : files[k] = x

\* the registry S2 differs from S by the removal of entry fid of session sid
\* and that session's last_activity, and by nothing else
OnlyEntryRemoved(S, S2, sid, fid) ==
    /\ Len(S2) = Len(S)
    /\ \A k \in 1..Len(S) :
          /\ S2[k].id = S[k].id /\ S2[k].ref = S[k].ref
          /\ S[k].id # sid => S2[k] = S[k]
          /\ S[k].id = sid =>
                LET old == S[k].files
                    new == S2[k].files IN
                   /\ ~InSeq(fid, new)
                   /\ \A x \in MoreFileIds : x # fid => (InSeq(x, old) <=> InSeq(x, new))
                   /\ \A i, j \in 1..Len(new) :
                         i < j => Index(old, new[i]) < Index(old, new[j])
    /\ ~Has(S, sid) => S2 = S

\* C19: in every reachable state, the locked block of the delivery cleanup,
\* run for any session id and file id, removes that entry and sets that
\* session's last_activity and changes nothing else: the other entries stay,
\* in their order, the other sessions stay as they are, no session is added
\* or removed, and on an id that is not registered the registry is left as
\* it is.
C19_CleanupFrame ==
    \A sid \in SessionIds : \A fid \in MoreFileIds :
        OnlyEntryRemoved(SESSIONS, cleanup_remove(SESSIONS, sid, fid, now), sid, fid)

\* a cleanup is about to remove the middle one of three entries of a
\* session while another session is registered
C19_Witness ==
    \E t \in Threads :
        /\ th[t].pc = "dl_remove"
        /\ Has(SESSIONS, th[t].sid)
        /\ Len(Get(SESSIONS, th[t].sid).files) = 3
        /\ Get(SESSIONS, th[t].sid).files[2] = th[t].fid
        /\ Len(SESSIONS) = 2

\* an api_upload request for sid is between its ensure_session and its end
Uploading(sid) ==
    \E t \in Threads : th[t].pc \in {"up_loop", "up_stat"} /\ th[t].sid = sid

\* C20: for a registered session with no upload in progress, every file on
\* disk in its directory is an entry of its files list.
C20_NoOrphans ==
    \A f \in disk :
        (Has(SESSIONS, f[1]) /\ ~Uploading(f[1])) => find_file(Get(SESSIONS, f[1]), f[2])
====
